---- MODULE Spec2Model ----
(***************************************************************************)
(* A model of src/Python/hpctools/gridsearch.py (Python 2):                *)
(*   - DependentObject: direct dependants and the lazily built, cached     *)
(*     dependants subtree;                                                 *)
(*   - sort_by_dependencies: sorted(..., cmp=compare);                     *)
(*   - GridSearch: construction (_parse_parameters, _check_parameters)     *)
(*     and generate() driving the recursive generator _generate_rec.       *)
(* Two specifications share the variables: SpecDep drives the              *)
(* DependentObject interface directly, Spec drives gridsearch().           *)
(***************************************************************************)
EXTENDS Integers, Sequences, FiniteSets, TLC

VARIABLES
    args,          \* the arguments of gridsearch(name, template, parameter_ranges, only_for)
    dictOrder,     \* the iteration order of the dicts keyed by parameter name (hash order)
    pc,            \* where the program is: start, constructed, generating, done, error, raised
    exc,           \* the exception that ended the program, or "none"
    parameters,    \* GridSearch._parameters: name -> [values, only_for]
    dependants,    \* DependentObject._dependants, per object
    subtree,       \* DependentObject._dependants_subtree, per object ([set |-> FALSE] is None)
    pnames,        \* generate(): the sorted parameter names
    gen,           \* the generator _generate_rec(pnames, {}): position of every nested loop
    cfg_index,     \* generate(): cfg_index
    p_vals,        \* generate(): the assignment of the current iteration
    files,         \* the output files written so far: path -> sidecar contents
    call           \* the last call of has_dependant / depends_on and what it returned

vars == <<args, dictOrder, pc, exc, parameters, dependants, subtree, pnames, gen,
          cfg_index, p_vals, files, call>>

gridVars == <<args, dictOrder, pc, exc, parameters, pnames, gen, cfg_index, p_vals, files>>

\* ------------------------------------------------------------------ bounds

\* the most direct-dependant edges add_dependant adds in SpecDep
MaxEdges == 3

\* ------------------------------------------------------------ general helpers

Range(s) == {s[i] : i \in 1..Len(s)}

\* The objects: one DependentObject (a Parameter) per upper-case parameter name.
Names == {"A", "B", "C"}

\* ------------------------------------------------------------ DependentObject

\* DependentObject.__init__: no dependants, _dependants_subtree = None
NoSubtree == [set |-> FALSE, list |-> <<>>]

RECURSIVE dependants_subtree(_, _)
RECURSIVE BuildLoop(_, _, _)

\* a build that appends the direct dependants only, leaving their subtrees out
ExtendDirectOnly(o, dep, s2) == s2

\* self._dependants_subtree += dep.dependants_subtree, s2 being the caches after the
\* read of dep.dependants_subtree
ExtendSubtree(o, dep, s2) == [s2 EXCEPT ![o].list = @ \o s2[dep].list]

\* for dep in self._dependants: append dep, then += dep.dependants_subtree;
\* st is the _dependants_subtree of every object, o is self, i the loop position.
\* dep.dependants_subtree may build and cache dep's subtree (and its descendants').
BuildLoop(o, st, i) ==
    IF i > Len(dependants[o]) THEN st
    ELSE BuildLoop(o,
                   ExtendSubtree(o, dependants[o][i],
                       dependants_subtree(dependants[o][i],
                           [st EXCEPT ![o].list = Append(@, dependants[o][i])])),
                   i + 1)

\* _build_dependants_subtree: the cache is set to [] before the loop runs
_build_dependants_subtree(o, st) ==
    BuildLoop(o, [st EXCEPT ![o] = [set |-> TRUE, list |-> <<>>]], 1)

\* the property dependants_subtree: the caches after reading it on o
dependants_subtree(o, st) ==
    IF st[o].set THEN st ELSE _build_dependants_subtree(o, st)

\* other in self.dependants_subtree, s1 being the caches after the read
InSubtree(self, other, s1) == [ret |-> other \in Range(s1[self].list), st |-> s1]

\* what a.has_dependant(b) returns, and the caches after it
has_dependant(a, b, st) == InSubtree(a, b, dependants_subtree(a, st))

\* what a.depends_on(b) returns, and the caches after it
depends_on(a, b, st) == has_dependant(b, a, st)

\* the edges present: b is reachable from a through direct-dependant edges
RECURSIVE ReachFrom(_)
ReachFrom(S) ==
    LET T == S \cup UNION {Range(dependants[o]) : o \in S}
    IN  IF T = S THEN S ELSE ReachFrom(T)

Reach(a) == ReachFrom(Range(dependants[a]))

Acyclic == \A o \in Names : o \notin Reach(o)

NumEdges == Len(dependants["A"]) + Len(dependants["B"]) + Len(dependants["C"])

NoCall == [op |-> "none", self |-> "A", other |-> "A", ret |-> FALSE]

\* ------------------------------------------------- SpecDep: the object interface

InitDep ==
    /\ dependants = [o \in Names |-> <<>>]
    /\ subtree = [o \in Names |-> NoSubtree]
    /\ call = NoCall
    /\ args = "none"
    /\ dictOrder = <<>>
    /\ pc = "objects"
    /\ exc = "none"
    /\ parameters = <<>>
    /\ pnames = <<>>
    /\ gen = <<>>
    /\ cfg_index = 0
    /\ p_vals = <<>>
    /\ files = {}

\* a.add_dependant(b)
add_dependant(a, b) ==
    /\ pc = "objects"
    /\ NumEdges < MaxEdges
    /\ dependants' = [dependants EXCEPT ![a] = Append(@, b)]
    /\ call' = NoCall
    /\ UNCHANGED <<subtree, gridVars>>

\* a.reset_dependants_subtree()
reset_dependants_subtree(a) ==
    /\ pc = "objects"
    /\ subtree' = [subtree EXCEPT ![a] = NoSubtree]
    /\ call' = NoCall
    /\ UNCHANGED <<dependants, gridVars>>

\* a.has_dependant(b)
HasDependantCall(a, b) ==
    /\ pc = "objects"
    /\ LET r == has_dependant(a, b, subtree)
       IN  /\ subtree' = r.st
           /\ call' = [op |-> "has_dependant", self |-> a, other |-> b, ret |-> r.ret]
    /\ UNCHANGED <<dependants, gridVars>>

\* a.depends_on(b)
DependsOnCall(a, b) ==
    /\ pc = "objects"
    /\ LET r == depends_on(a, b, subtree)
       IN  /\ subtree' = r.st
           /\ call' = [op |-> "depends_on", self |-> a, other |-> b, ret |-> r.ret]
    /\ UNCHANGED <<dependants, gridVars>>

\* The caller keeps the dependency graph acyclic (a cycle is a caller error), so the
\* driver adds no edge that closes one.
ClosesCycle(a, b) == a = b \/ a \in Reach(b)

NextDep ==
    \/ \E a \in Names, b \in Names : ~ClosesCycle(a, b) /\ add_dependant(a, b)
    \/ \E a \in Names : reset_dependants_subtree(a)
    \/ \E a \in Names, b \in Names : HasDependantCall(a, b)
    \/ \E a \in Names, b \in Names : DependsOnCall(a, b)

SpecDep == InitDep /\ [][NextDep]_vars

\* ------------------------------------------------------- the inputs of gridsearch

\* the longest literal list / range of a parameter in the small inputs
MaxLen == 2

\* the most restrictions (only_for entries and GridGroup dependants) of an input
MaxRestr == 2

\* the end of the range string "1:BigEnd" of the large input
BigEnd == 100001

\* str.upper() on the names the inputs use
Upper(s) ==
    CASE s = "a" -> "A"
      [] s = "b" -> "B"
      [] s = "c" -> "C"
      [] s = "foo" -> "FOO"
      [] s = "cfg_index" -> "CFG_INDEX"
      [] OTHER -> s

\* GridSearch.predefined_parameters
predefined_parameters == {"CFG_INDEX"}

\* The parameter names as the caller writes them: the third one in lower case.
RawNames == {"A", "B", "c"}

\* A value list: a Python list (elems) or a numpy arange (start, step, n).
ListValues(elems) == [arr |-> FALSE, elems |-> elems, start |-> 0, step |-> 0, n |-> Len(elems)]

ArangeValues(start, step, n) == [arr |-> TRUE, elems |-> <<>>, start |-> start, step |-> step, n |-> n]

ValLen(v) == v.n

ValAt(v, i) == IF v.arr THEN v.start + (i - 1) * v.step ELSE v.elems[i]

ValSet(v) == {ValAt(v, i) : i \in 1..ValLen(v)}

\* A range specification is a string, given by its parts between the colons
\* ("1:2" is <<1, 2>>), or a list whose elements are literals or GridGroups
\* (deps: dependent_parameters; a literal is written with no dependants and group FALSE).
StrSpec(parts) == [str |-> TRUE, parts |-> parts, elems |-> <<>>]

ListSpec(elems) == [str |-> FALSE, parts |-> <<>>, elems |-> elems]

Literal(v) == [group |-> FALSE, value |-> v, deps |-> {}]

GridGroup(v, deps) == [group |-> TRUE, value |-> v, deps |-> deps]

\* The restrictions an input may state: p is restricted to the values allowed of q.
RestrPairs ==
    {<<"A", "B">>, <<"A", "C">>, <<"B", "A">>, <<"B", "C">>, <<"c", "A">>, <<"c", "B">>}

AllowedLists == {<<1>>, <<2>>}

Restrictions == {[p |-> pq[1], q |-> pq[2], allowed |-> al] : pq \in RestrPairs, al \in AllowedLists}

RestrSets ==
    {R \in SUBSET Restrictions :
        /\ Cardinality(R) <= MaxRestr
        /\ \A e1 \in R, e2 \in R : (e1.p = e2.p /\ e1.q = e2.q) => e1 = e2}

\* A restriction by B on a value B's list holds is written as a GridGroup in B's list,
\* every other one as an entry of the only_for argument.
IsGrouped(e, lens) == e.q = "B" /\ e.allowed[1] <= lens["B"]

\* the range specification of raw parameter p with k values under the restrictions R:
\* A and B are given as lists, c as the range string "1:k"
RngSpecOf(p, lens, R) ==
    IF p = "c" THEN StrSpec(<<1, lens[p]>>)
    ELSE ListSpec([i \in 1..lens[p] |->
            LET deps == {e.p : e \in {x \in R : p = "B" /\ IsGrouped(x, lens) /\ x.allowed[1] = i}}
            IN  IF deps = {} THEN Literal(i) ELSE GridGroup(i, deps)])

Templates ==
    { [template |-> {"a"}, name |-> {"cfg_index"}],
      [template |-> {"foo"}, name |-> {"cfg_index"}],
      [template |-> {"a"}, name |-> {"cfg_index", "FOO"}] }

Perms(S) == {f \in [1..Cardinality(S) -> S] : \A i, j \in 1..Cardinality(S) : f[i] = f[j] => i = j}

SmallArgs ==
    {[name |-> t.name, template |-> t.template,
      parameter_ranges |-> [p \in S |-> RngSpecOf(p, lens, R)],
      only_for |-> {e \in R : ~IsGrouped(e, lens)}] :
        t \in Templates, S \in {{"A", "B"}, RawNames}, lens \in [RawNames -> 0..MaxLen],
        R \in RestrSets}

\* one parameter with more than 99999 values; every assignment writes the same path
BigArgs ==
    [name |-> {}, template |-> {"a"},
     parameter_ranges |-> [p \in {"A"} |-> StrSpec(<<1, BigEnd>>)],
     only_for |-> {}]

Init ==
    /\ args \in SmallArgs \cup {BigArgs}
    /\ dictOrder \in Perms({Upper(p) : p \in DOMAIN args.parameter_ranges})
    /\ pc = "start"
    /\ exc = "none"
    /\ parameters = <<>>
    /\ dependants = [o \in Names |-> <<>>]
    /\ subtree = [o \in Names |-> NoSubtree]
    /\ pnames = <<>>
    /\ gen = [started |-> FALSE, frames |-> <<>>]
    /\ cfg_index = 0
    /\ p_vals = <<>>
    /\ files = {}
    /\ call = NoCall

\* ------------------------------------------------------ GridSearch construction

\* len(np.arange(start, end + step/100., step)) for step # 0, in hundredths
ArangeLen(start, step, end) ==
    LET num == 100 * (end - start) + step
        den == 100 * step
        an == IF step > 0 THEN num ELSE -num
        ad == IF step > 0 THEN den ELSE -den
    IN  IF an <= 0 THEN 0 ELSE (an + ad - 1) \div ad

\* _parse_rng_str on a string with the given parts: the values, or a ValueError
_parse_rng_str(parts) ==
    IF Len(parts) = 3
    THEN [err |-> "none",
          values |-> ArangeValues(parts[1], parts[2], ArangeLen(parts[1], parts[2], parts[3]))]
    ELSE IF Len(parts) = 2
    THEN [err |-> "none", values |-> ArangeValues(parts[1], 1, ArangeLen(parts[1], 1, parts[2]))]
    ELSE IF Len(parts) = 1
    THEN [err |-> "none", values |-> ListValues(<<parts[1]>>)]
    ELSE [err |-> "ValueError", values |-> ListValues(<<>>)]

\* the val of one parameter: lines 142-158
ParseRngSpec(rng_spec) ==
    IF rng_spec.str THEN _parse_rng_str(rng_spec.parts)
    ELSE [err |-> "none",
          values |-> ListValues([i \in 1..Len(rng_spec.elems) |-> rng_spec.elems[i].value])]

\* the values the GridGroups of raw parameter p append to only_for[dep][p], in order
GroupValues(para_strs, p, dep) ==
    LET grp == SelectSeq(para_strs[p].elems, LAMBDA e : e.group /\ dep \in e.deps)
    IN  [i \in 1..Len(grp) |-> grp[i].value]

\* the local dict only_for after the first loop: the argument's entries, with the
\* GridGroups' values appended (lines 151-156)
OnlyForDict(para_strs, only_for) ==
    LET top(d, r) == {e \in only_for : e.p = d /\ e.q = r}
        deps == {e.p : e \in only_for} \cup
                UNION {UNION {para_strs[p].elems[i].deps : i \in 1..Len(para_strs[p].elems)} :
                         p \in DOMAIN para_strs}
        keys == {e.q : e \in only_for} \cup DOMAIN para_strs
        lst(d, r) == (IF top(d, r) = {} THEN <<>> ELSE (CHOOSE e \in top(d, r) : TRUE).allowed)
                     \o (IF r \in DOMAIN para_strs THEN GroupValues(para_strs, r, d) ELSE <<>>)
    IN  {[p |-> dr[1], q |-> dr[2], allowed |-> lst(dr[1], dr[2])] :
            dr \in {x \in deps \X keys :
                      \/ top(x[1], x[2]) # {}
                      \/ (x[2] \in DOMAIN para_strs /\ Len(GroupValues(para_strs, x[2], x[1])) > 0)}}

\* the keys of a dict in its iteration order
InDictOrder(S, order) == SelectSeq(order, LAMBDA x : x \in S)

\* Parameter.only_for of parameter pname: (name, values) in the dict's iteration order
OnlyForOf(pname, E, order) ==
    LET mine == {e \in E : Upper(e.p) = pname}
        keys == InDictOrder({e.q : e \in mine}, order)
    IN  [i \in 1..Len(keys) |->
            [name |-> keys[i], values |-> (CHOOSE e \in mine : e.q = keys[i]).allowed]]

\* _parse_parameters: the exception it raises or the parameters it returns, with the
\* dependants add_dependant has linked (lines 180-182)
_parse_parameters(para_strs, only_for, order) ==
    LET parsed == [p \in DOMAIN para_strs |-> ParseRngSpec(para_strs[p])]
        pnms == {Upper(p) : p \in DOMAIN para_strs}
        raw(pname) == CHOOSE p \in DOMAIN para_strs : Upper(p) = pname
        E == OnlyForDict(para_strs, only_for)
        params == [pname \in pnms |->
                     [values |-> parsed[raw(pname)].values,
                      only_for |-> OnlyForOf(pname, E, order)]]
        deps == [o \in Names |->
                   InDictOrder({pname \in pnms : \E e \in E : Upper(e.p) = pname /\ e.q = o},
                               order)]
    IN  IF \E p \in DOMAIN para_strs : parsed[p].err = "ValueError"
        THEN [exc |-> "GridSearchError", parameters |-> <<>>, dependants |-> dependants]
        ELSE IF \E e \in E : Upper(e.p) \notin pnms
        THEN [exc |-> "GridSearchError", parameters |-> <<>>, dependants |-> dependants]
        ELSE IF \E e \in E : e.q \notin pnms
        THEN [exc |-> "KeyError", parameters |-> <<>>, dependants |-> dependants]
        ELSE [exc |-> "none", parameters |-> params, dependants |-> deps]

\* _get_used_parameters: the upper-cased placeholders of the template and the name
_get_used_parameters(template, name) == {Upper(t) : t \in template \cup name}

\* _check_parameters: the parameters used but not specified (an error when not empty)
used_but_not_specified(template, name, params) ==
    (_get_used_parameters(template, name) \cup predefined_parameters)
        \ (DOMAIN params \cup predefined_parameters)

\* GridSearch.__init__: _parse_parameters, then _check_parameters
Construct ==
    /\ pc = "start"
    /\ LET r == _parse_parameters(args.parameter_ranges, args.only_for, dictOrder)
       IN  IF r.exc # "none"
           THEN /\ pc' = "error"
                /\ exc' = r.exc
                /\ UNCHANGED <<parameters, dependants>>
           ELSE IF used_but_not_specified(args.template, args.name, r.parameters) # {}
           THEN /\ pc' = "error"
                /\ exc' = "GridSearchError"
                /\ UNCHANGED <<parameters, dependants>>
           ELSE /\ pc' = "constructed"
                /\ exc' = "none"
                /\ parameters' = r.parameters
                /\ dependants' = r.dependants
    /\ UNCHANGED <<args, dictOrder, subtree, pnames, gen, cfg_index, p_vals, files, call>>

\* --------------------------------------------------------- sort_by_dependencies

\* compare(a, b): the elif and else branches, r2 being what a.depends_on(b) gave
CompareElse(r2) == [res |-> IF r2.ret THEN 1 ELSE 0, st |-> r2.st]

\* compare(a, b): the branches, r1 being what a.has_dependant(b) gave
CompareIf(a, b, r1) ==
    IF r1.ret THEN [res |-> -1, st |-> r1.st] ELSE CompareElse(depends_on(a, b, r1.st))

\* compare(a, b) of sort_by_dependencies, and the subtree caches after it
compare(a, b, st) == CompareIf(a, b, has_dependant(a, b, st))

\* ISLT: the comparison's result c is less than 0
IsNegative(c) == [lt |-> c.res < 0, st |-> c.st]

\* ISLT(x, y) of CPython's list sort: compare(x, y) < 0
islt(x, y, st) == IsNegative(compare(x, y, st))

RECURSIVE CountLoop(_, _, _, _)

\* count_run: one round of its loop, c being ISLT(lo[i], lo[i-1]): a descending run
\* goes on while it is less, an ascending one while it is not
CountStep(L, i, descending, c) ==
    IF c.lt = descending THEN CountLoop(L, i + 1, descending, c.st)
    ELSE [n |-> i - 1, descending |-> descending, st |-> c.st]

\* count_run: the loop over lo after the first comparison; i is the 1-based position
CountLoop(L, i, descending, st) ==
    IF i > Len(L) THEN [n |-> Len(L), descending |-> descending, st |-> st]
    ELSE CountStep(L, i, descending, islt(L[i], L[i - 1], st))

\* count_run: the run descends when the second element is less than the first (c)
CountFirst(L, c) == CountLoop(L, 3, c.lt, c.st)

\* count_run(lo, hi): the length of the run at the start of L and whether it descends
count_run(L, st) ==
    IF Len(L) = 1 THEN [n |-> 1, descending |-> FALSE, st |-> st]
    ELSE CountFirst(L, islt(L[2], L[1], st))

\* reverse_slice(lo, lo + n)
reverse_slice(L, n) == [i \in 1..Len(L) |-> IF i <= n THEN L[n + 1 - i] ELSE L[i]]

RECURSIVE BinSearch(_, _, _, _, _)

\* binarysort: one round of the do-while, c being ISLT(pivot, *p): r = p, else l = p + 1
BinStep(L, pivot, l, r, p, c) ==
    IF c.lt
    THEN IF l < p THEN BinSearch(L, pivot, l, p, c.st) ELSE [pos |-> l, st |-> c.st]
    ELSE IF p + 1 < r THEN BinSearch(L, pivot, p + 1, r, c.st) ELSE [pos |-> p + 1, st |-> c.st]

\* binarysort: the do-while that finds where pivot belongs in L[l..r) (0-based)
BinSearch(L, pivot, l, r, st) ==
    BinStep(L, pivot, l, r, l + ((r - l) \div 2), islt(pivot, L[l + ((r - l) \div 2) + 1], st))

RECURSIVE binarysort(_, _, _)

\* binarysort: the pivot L[start] moves to the position b.pos found for it
InsertPivot(L, start, b) ==
    binarysort(SubSeq(L, 1, b.pos) \o <<L[start + 1]>> \o SubSeq(L, b.pos + 1, start)
                   \o SubSeq(L, start + 2, Len(L)),
               start + 1, b.st)

\* binarysort(lo, hi, start): L[0..start) is taken as sorted, the rest is inserted
binarysort(L, start, st) ==
    IF start >= Len(L) THEN [list |-> L, st |-> st]
    ELSE InsertPivot(L, start, BinSearch(L, L[start + 1], 0, start, st))

\* listsort after count_run: a descending run is reversed, and binarysort extends the
\* run to the whole list (minrun is the length of a list of fewer than 64 elements)
SortRun(L, run) ==
    IF run.n < Len(L)
    THEN binarysort(IF run.descending THEN reverse_slice(L, run.n) ELSE L, run.n, run.st)
    ELSE [list |-> IF run.descending THEN reverse_slice(L, run.n) ELSE L, st |-> run.st]

\* listsort for fewer than 64 elements
listsort(L, st) ==
    IF Len(L) < 2 THEN [list |-> L, st |-> st] ELSE SortRun(L, count_run(L, st))

\* sort_by_dependencies(dependent_objs): sorted(dependent_objs, cmp=compare)
sort_by_dependencies(dependent_objs, st) == listsort(dependent_objs, st)

\* ------------------------------------------------------------------- generate

\* Parameter.should_scan(upper_values): "True", "False", or the KeyError of the lookup
RECURSIVE ScanLoop(_, _, _)
ScanLoop(only_for, upper_values, i) ==
    IF i > Len(only_for) THEN "True"
    ELSE IF only_for[i].name \notin DOMAIN upper_values THEN "KeyError"
    ELSE IF upper_values[only_for[i].name] \notin Range(only_for[i].values) THEN "False"
    ELSE ScanLoop(only_for, upper_values, i + 1)

should_scan(ps, upper_values) == ScanLoop(ps.only_for, upper_values, 1)

\* a loop that runs through val_rng from its last value to its first
FrameValReversed(frames, d) ==
    LET ps == parameters[pnames[d]]
    IN  IF frames[d].scan
        THEN ValAt(ps.values, ValLen(ps.values) + 1 - frames[d].i)
        ELSE ValAt(ps.values, 1)

\* The generator _generate_rec(pnames, {}) is the stack of its nested calls: frame d is
\* the call for pnames[d..], which iterates val_rng (ps.values when scan, else
\* [ps.values[0]]) and stands at its i-th value.
FrameVal(frames, d) ==
    LET ps == parameters[pnames[d]]
    IN  IF frames[d].scan THEN ValAt(ps.values, frames[d].i) ELSE ValAt(ps.values, 1)

FrameCount(frames, d) ==
    IF frames[d].scan THEN ValLen(parameters[pnames[d]].values) ELSE 1

\* upper_vals of the call below the frames (as well the assignment they yield)
UpperVals(frames) ==
    [p \in {pnames[d] : d \in 1..Len(frames)} |->
        FrameVal(frames, CHOOSE d \in 1..Len(frames) : pnames[d] = p)]

RECURSIVE Enter(_, _)
RECURSIVE Resume(_, _)

\* the call _generate_rec(pnames[d..], upper_vals) runs to the next yield of the whole
\* stack, to the end of the enumeration or to an exception
Enter(d, frames) ==
    IF d > Len(pnames) THEN [st |-> "yield", frames |-> frames]
    ELSE LET ps == parameters[pnames[d]]
             sc == should_scan(ps, UpperVals(frames))
         IN  IF sc = "KeyError" THEN [st |-> "KeyError", frames |-> frames]
             ELSE IF sc = "False" /\ ValLen(ps.values) = 0
             THEN [st |-> "IndexError", frames |-> frames]
             ELSE IF sc = "True" /\ ValLen(ps.values) = 0
             THEN Resume(d - 1, frames)
             ELSE Enter(d + 1, Append(frames, [scan |-> sc = "True", i |-> 1]))

\* the generator below frame d is exhausted: frame d's "for val in val_rng" goes on
Resume(d, frames) ==
    IF d = 0 THEN [st |-> "done", frames |-> <<>>]
    ELSE IF frames[d].i < FrameCount(frames, d)
    THEN Enter(d + 1, [frames EXCEPT ![d].i = @ + 1])
    ELSE Resume(d - 1, SubSeq(frames, 1, d - 1))

\* next() on the generator
GenNext(g) ==
    IF g.started THEN Resume(Len(pnames), g.frames) ELSE Enter(1, <<>>)

\* the width of "%05d"
IndexWidth == 5

DigitChars == <<"0", "1", "2", "3", "4", "5", "6", "7", "8", "9">>

RECURSIVE Decimal(_)
Decimal(n) ==
    IF n < 10 THEN <<DigitChars[n + 1]>> ELSE Append(Decimal(n \div 10), DigitChars[(n % 10) + 1])

\* "%d" % n: the index without its padding
FormatUnpadded(n) == Decimal(n)

\* "%05d" % n for n >= 0: zeros to the left up to the width, never a cut
Format05d(n) ==
    LET d == Decimal(n)
    IN  IF Len(d) >= IndexWidth THEN d ELSE [i \in 1..(IndexWidth - Len(d)) |-> "0"] \o d

\* _instantiate(template, parameters): the placeholders replaced, with their values
_instantiate(template, pv) ==
    LET used == {Upper(t) : t \in template} \cap DOMAIN pv
    IN  [p \in used |-> pv[p]]

\* generate(), up to its loop: the parameters sorted, the generator created
GenerateStart ==
    /\ pc = "constructed"
    /\ LET plist == sort_by_dependencies(InDictOrder(DOMAIN parameters, dictOrder), subtree)
       IN  /\ pnames' = plist.list
           /\ subtree' = plist.st
    /\ cfg_index' = 0
    /\ gen' = [started |-> FALSE, frames |-> <<>>]
    /\ pc' = "generating"
    /\ UNCHANGED <<args, dictOrder, exc, parameters, dependants, p_vals, files, call>>

\* one iteration of generate()'s loop: the next assignment, indexed and written
GenerateYield ==
    /\ pc = "generating"
    /\ LET r == GenNext(gen)
       IN  /\ r.st = "yield"
           /\ gen' = [started |-> TRUE, frames |-> r.frames]
           /\ cfg_index' = cfg_index + 1
           /\ p_vals' = UpperVals(r.frames) @@ ("CFG_INDEX" :> Format05d(cfg_index + 1))
    /\ files' = {f \in files : f.path # _instantiate(args.name, p_vals')}
                \cup {[path |-> _instantiate(args.name, p_vals'),
                       data |-> _instantiate(args.template, p_vals'),
                       json |-> p_vals']}
    /\ UNCHANGED <<args, dictOrder, pc, exc, parameters, dependants, subtree, pnames, call>>

\* the generator is exhausted: generate() returns
GenerateDone ==
    /\ pc = "generating"
    /\ GenNext(gen).st = "done"
    /\ pc' = "done"
    /\ gen' = [started |-> TRUE, frames |-> <<>>]
    /\ UNCHANGED <<args, dictOrder, exc, parameters, dependants, subtree, pnames,
                   cfg_index, p_vals, files, call>>

\* the generator raises: the exception leaves generate()
GenerateRaise ==
    /\ pc = "generating"
    /\ GenNext(gen).st \in {"KeyError", "IndexError"}
    /\ pc' = "raised"
    /\ exc' = GenNext(gen).st
    /\ gen' = [started |-> TRUE, frames |-> <<>>]
    /\ UNCHANGED <<args, dictOrder, parameters, dependants, subtree, pnames,
                   cfg_index, p_vals, files, call>>

Next ==
    \/ Construct
    \/ GenerateStart
    \/ GenerateYield
    \/ GenerateDone
    \/ GenerateRaise

Spec == Init /\ [][Next]_vars

\* ------------------------------------------------- what the claims speak about

\* the generate() call has ended, by returning or by raising
Ended == pc \in {"done", "raised"}

\* the parameters are sorted (generate() is past sort_by_dependencies)
Sorted == pc \in {"generating", "done", "raised"}

\* the position of parameter p in the sorted sequence
IndexOf(p) == CHOOSE i \in 1..Len(pnames) : pnames[i] = p

\* every restricting parameter stands before every parameter it restricts
OrderedByDependencies ==
    \A a \in DOMAIN parameters, b \in DOMAIN parameters :
        b \in Reach(a) => IndexOf(a) < IndexOf(b)

\* the name template holds $CFG_INDEX$: every assignment is written to a path of its
\* own, so the sidecar files are the assignments generated so far
IndexInName == "CFG_INDEX" \in {Upper(t) : t \in args.name}

\* the assignments generated so far, without their CFG_INDEX
Yielded == {[p \in DOMAIN parameters |-> f.json[p]] : f \in files}

\* the number the digit string str reads as
RECURSIVE DecimalValue(_)
DecimalValue(str) ==
    IF Len(str) = 0 THEN 0
    ELSE 10 * DecimalValue(SubSeq(str, 1, Len(str) - 1))
         + ((CHOOSE k \in 1..10 : DigitChars[k] = str[Len(str)]) - 1)

\* the number of decimal digits of n >= 1
NumDigits(n) == CHOOSE k \in 1..9 : 10^(k - 1) <= n /\ n < 10^k

\* the assignment g has, for every restriction of p, a value the restriction allows
AllAllowed(p, g) ==
    \A i \in 1..Len(parameters[p].only_for) :
        g[parameters[p].only_for[i].name] \in Range(parameters[p].only_for[i].values)

EmptyDomain == \E p \in DOMAIN parameters : ValLen(parameters[p].values) = 0

DistinctValues ==
    \A p \in DOMAIN parameters :
        Cardinality(ValSet(parameters[p].values)) = ValLen(parameters[p].values)

\* the valid combinations: every parameter has a value of its domain, and its first
\* value where a restriction rules it out
ValidCombos ==
    {g \in [DOMAIN parameters -> UNION {ValSet(parameters[p].values) : p \in DOMAIN parameters}] :
        \A p \in DOMAIN parameters :
            /\ g[p] \in ValSet(parameters[p].values)
            /\ ~AllAllowed(p, g) => g[p] = ValAt(parameters[p].values, 1)}

\* the value u stands before the value v in the stored domain of p
StandsBefore(p, u, v) ==
    \E i \in 1..ValLen(parameters[p].values), j \in 1..ValLen(parameters[p].values) :
        /\ i < j
        /\ ValAt(parameters[p].values, i) = u
        /\ ValAt(parameters[p].values, j) = v

\* g comes before h in the lexicographic order of the sorted parameter sequence
LexBefore(g, h) ==
    \E d \in 1..Len(pnames) :
        /\ \A e \in 1..(d - 1) : g[pnames[e]] = h[pnames[e]]
        /\ g[pnames[d]] # h[pnames[d]]
        /\ StandsBefore(pnames[d], g[pnames[d]], h[pnames[d]])

\* a restriction or a GridGroup of the arguments names a parameter without a range
\* specification, as the restricted or as the restricting parameter
ReferencesUndefined ==
    LET defined == {Upper(p) : p \in DOMAIN args.parameter_ranges}
        E == OnlyForDict(args.parameter_ranges, args.only_for)
    IN  \E e \in E : Upper(e.p) \notin defined \/ Upper(e.q) \notin defined

\* a template holds a placeholder that is neither a parameter nor CFG_INDEX
UndefinedPlaceholder ==
    \E t \in args.template \cup args.name :
        Upper(t) \notin {Upper(p) : p \in DOMAIN args.parameter_ranges} \cup {"CFG_INDEX"}

\* every cached subtree holds exactly the objects reachable now
CachesExact ==
    \A o \in Names : subtree[o].set => Range(subtree[o].list) = Reach(o)

\* ------------------------------------------------------------------ the claims

\* C1 (the claim, which the code breaks): on an acyclic restriction graph the sorted
\* sequence places every parameter before every parameter it restricts, directly or
\* transitively, for every input order.
C1_SortPlacesRestrictingFirst ==
    (Sorted /\ Acyclic) => OrderedByDependencies

\* C2 (the claim, which the code breaks): when generate() has ended, a restricted
\* parameter B of an assignment whose restricting values are all allowed ranges over
\* its whole domain among the assignments with the same upstream values, and has its
\* first value otherwise; with B restricted by an unrestricted A alone, every allowed
\* value of A occurs with every value of B. (Stated where no domain is empty and the
\* graph is acyclic.)
C2_RestrictionCorrect ==
    (Ended /\ IndexInName /\ Acyclic /\ ~EmptyDomain) =>
        \A b \in {p \in DOMAIN parameters : Len(parameters[p].only_for) > 0} :
            /\ \A g \in Yielded :
                  IF AllAllowed(b, g)
                  THEN \A v \in ValSet(parameters[b].values) :
                          \E h \in Yielded :
                             /\ h[b] = v
                             /\ \A e \in 1..(IndexOf(b) - 1) : h[pnames[e]] = g[pnames[e]]
                  ELSE g[b] = ValAt(parameters[b].values, 1)
            /\ Len(parameters[b].only_for) = 1 =>
                  LET a == parameters[b].only_for[1].name
                      allowed == Range(parameters[b].only_for[1].values)
                  IN  Len(parameters[a].only_for) = 0 =>
                         \A x \in ValSet(parameters[a].values) \cap allowed :
                            \A v \in ValSet(parameters[b].values) :
                               \E h \in Yielded : h[a] = x /\ h[b] = v

\* C3 (the claim, which the code breaks): on an acyclic graph with distinct values in
\* every domain, the assignments generated are the valid combinations, each exactly
\* once.
C3_EveryCombinationOnce ==
    (Ended /\ IndexInName /\ Acyclic /\ DistinctValues) =>
        /\ Yielded = ValidCombos
        /\ cfg_index = Cardinality(ValidCombos)

\* C4 (the claim, which the code breaks): once the GridSearch object is constructed,
\* generate() raises no error caused by the specification. (Stated for the acyclic
\* specifications.)
C4_NoErrorDuringEnumeration ==
    Acyclic => pc # "raised"

\* C5 (the claim, which the code breaks): a restriction or GridGroup that names a
\* parameter without a range specification, as the restricted or the restricting one,
\* makes the construction fail with GridSearchError.
C5_UndefinedReferenceIsGridSearchError ==
    (pc # "start" /\ ReferencesUndefined) => (pc = "error" /\ exc = "GridSearchError")

\* C6 (the claim, which the code breaks): a placeholder without a parameter makes the
\* construction fail with GridSearchError, no file having been written.
C6_UndefinedPlaceholderIsGridSearchError ==
    (pc # "start" /\ UndefinedPlaceholder) =>
        (pc = "error" /\ exc = "GridSearchError" /\ files = {})

\* C7 (the claim as stated, which the code refutes): the n-th assignment carries n as
\* a decimal string of exactly 5 characters, for every n generated.
C7_IndexHasFiveCharacters ==
    cfg_index >= 1 =>
        /\ DecimalValue(p_vals["CFG_INDEX"]) = cfg_index
        /\ Len(p_vals["CFG_INDEX"]) = IndexWidth

\* C7 (amended): the n-th assignment carries n in decimal, the indices written are
\* 1..n without gap or repeat, and the string has 5 characters up to n = 99999 and
\* the digits of n, more than 5, from n = 100000 on.
C7_IndexZeroPadded ==
    cfg_index >= 1 =>
        /\ DecimalValue(p_vals["CFG_INDEX"]) = cfg_index
        /\ Len(p_vals["CFG_INDEX"]) = (IF cfg_index < 10^IndexWidth THEN IndexWidth ELSE NumDigits(cfg_index))
        /\ IndexInName =>
              /\ Cardinality(files) = cfg_index
              /\ {DecimalValue(f.json["CFG_INDEX"]) : f \in files} = 1..cfg_index

\* C7: an index of six characters has been generated
C7_Witness ==
    cfg_index = 10^IndexWidth /\ Len(p_vals["CFG_INDEX"]) = IndexWidth + 1

\* C8 (the claim, which the code breaks): with an empty domain among the parameters,
\* generate() yields nothing and returns normally, whatever the restrictions. (Stated
\* for the acyclic specifications whose parameters are sorted by their dependencies.)
C8_EmptyDomainYieldsNothing ==
    (Sorted /\ Acyclic /\ OrderedByDependencies /\ EmptyDomain) =>
        (pc # "raised" /\ cfg_index = 0)

\* C9 (the claim as stated, which the code refutes): whatever add_dependant calls and
\* reads came before, a.has_dependant(b) returns true iff b is reachable from a
\* through the edges present at the call.
C9_HasDependantIsReachability ==
    call.op = "has_dependant" => (call.ret <=> call.other \in Reach(call.self))

\* C9 (amended): add_dependant leaves every cached subtree as it is (only
\* reset_dependants_subtree clears one); a.has_dependant(b) never returns true for an
\* unreachable b; and on an acyclic graph, when every cached subtree is up to date at
\* the call, it returns true iff b is reachable from a.
C9_HasDependantOnFreshCaches ==
    /\ [](call.op = "has_dependant" => (call.ret => call.other \in Reach(call.self)))
    /\ [][dependants' # dependants => subtree' = subtree]_vars
    /\ [][(call'.op = "has_dependant" /\ CachesExact /\ Acyclic)
            => (call'.ret <=> call'.other \in Reach(call'.self))]_vars

\* C9: has_dependant has found an object that depends on self only through another
C9_Witness ==
    /\ call.op = "has_dependant"
    /\ call.ret
    /\ call.other \notin Range(dependants[call.self])
    /\ CachesExact

\* C10: when generate() has ended, of any two assignments generated the earlier one
\* has, at the first parameter of the sorted sequence where they differ, the value
\* that stands earlier in that parameter's domain.
C10_LexicographicOrder ==
    (Ended /\ IndexInName) =>
        \A f1 \in files, f2 \in files :
            DecimalValue(f1.json["CFG_INDEX"]) < DecimalValue(f2.json["CFG_INDEX"])
                => LexBefore(f1.json, f2.json)

\* C10: an enumeration has ended in which a restricted parameter was scanned under
\* one upstream value and held at its first value under another
C10_Witness ==
    /\ pc = "done"
    /\ IndexInName
    /\ \E b \in DOMAIN parameters :
          /\ Len(parameters[b].only_for) > 0
          /\ \E g \in Yielded, h \in Yielded : AllAllowed(b, g) /\ ~AllAllowed(b, h)
          /\ \E g \in Yielded : g[b] # ValAt(parameters[b].values, 1)

====
